---- MODULE Spec2Model ----
(***************************************************************************)
(* Lead-capture core of backend/src/agent.py: the LeadProfile dataclass,   *)
(* the two tools update_lead_profile and submit_lead_and_end, and the JSON *)
(* lead store file arvind_leads_db.json they persist to.                   *)
(*                                                                         *)
(* Spec     : one worker process; each tool call runs to completion (the   *)
(*            handlers contain no await), the environment may delete or    *)
(*            damage the store file between calls.                         *)
(* SpecConc : two worker processes sharing the store file; the file system *)
(*            calls of submit_lead_and_end interleave.                     *)
(***************************************************************************)
EXTENDS Integers, Sequences, FiniteSets, TLC

\* ------------------------------------------------------------------ bounds
MaxSupplied == 2   \* parameters passed (possibly as "") in one update call of SpecProfile
MaxSubmits == 2    \* submit_lead_and_end calls in one run

\* ------------------------------------------------------------- value space
Procs == {"p1", "p2"}
Main == "p1"

\* LeadProfile's attributes, agent.py:88-94
Fields == {"name", "company", "email", "role", "use_case", "team_size", "timeline"}

\* Python's None (the default of every attribute and of every tool parameter)
None == "<None>"
\* the non-empty strings a caller supplies
Strings == {"a", "b"}
\* what a tool parameter can be: omitted/None, the empty string, a string
ArgValues == {None, ""} \cup Strings

\* Python truthiness of an Optional[str], as tested by `if name:` and all()
Truthy(v) == v # None /\ v # ""

\* LeadProfile(): every attribute None
EmptyProfile == [f \in Fields |-> None]

\* The argument mappings of one update_lead_profile call: the parameters in S
\* are passed, the others keep their default None.
UpdateArgs ==
    UNION { { [f \in Fields |-> IF f \in S THEN vals[f] ELSE None] :
                vals \in [S -> {""} \cup Strings] } :
            S \in { T \in SUBSET Fields : Cardinality(T) <= MaxSupplied } }

\* The update calls of the runs that also write the store: the calls of the
\* scenario "update(name, email), update(use_case), finalize", a call that
\* overwrites a set field and sets another, and a call passing an empty string.
Call(args) == [f \in Fields |-> IF f \in DOMAIN args THEN args[f] ELSE None]
ScenarioArgs ==
    { Call([name |-> "a", email |-> "b"]),
      Call([use_case |-> "a"]),
      Call([name |-> "b", company |-> "a"]),
      Call([email |-> ""]) }

\* The update calls of the runs of two workers: the scenario's two calls.
ConcurrentArgs ==
    { Call([name |-> "a", email |-> "b"]),
      Call([use_case |-> "a"]) }

\* ---------------------------------------------------------------- profile
\* Python's all(iterable) over a list of values
RECURSIVE All(_)
All(xs) == IF xs = <<>> THEN TRUE ELSE Truthy(Head(xs)) /\ All(Tail(xs))

IsQualifiedCompanyToo(prof) ==
    All(<<prof["name"], prof["email"], prof["use_case"], prof["company"]>>)

\* LeadProfile.is_qualified
IsQualified(prof) == All(<<prof["name"], prof["email"], prof["use_case"]>>)

MergeOverwriteEmpty(prof, args) ==
    [f \in Fields |-> IF args[f] # None THEN args[f] ELSE prof[f]]

MergeCompanyFromStaleName(prof, args) ==
    [f \in Fields |->
        IF ~Truthy(args[f]) THEN prof[f]
        ELSE IF f = "company" THEN prof["name"] ELSE args[f]]

\* the seven `if x: profile.x = x` statements of update_lead_profile
MergeFields(prof, args) ==
    [f \in Fields |-> IF Truthy(args[f]) THEN args[f] ELSE prof[f]]

UpdateAck == <<"Lead profile updated successfully.">>

\* ------------------------------------------------------------- lead store
\* The store file as its JSON reading: absent, zero bytes, bytes json.load
\* rejects, a JSON array, or a JSON value that is not an array.
NonArrayTypes == {"object", "string", "number"}
UnparseableTypes == {"empty", "invalid"}
FileOf(type, items) == [type |-> type, items |-> items]
Absent == FileOf("absent", <<>>)
EmptyList == FileOf("array", <<>>)

\* datetime.isoformat(): the microsecond part is printed only when non-zero.
\* A clock reading t is t \div 2 seconds and t % 2 microseconds.
IsoFormat(t) == IF t % 2 = 0 THEN <<t \div 2>> ELSE <<t \div 2, t % 2>>

\* string order of two isoformat() results (fixed-width fields, left to right)
RECURSIVE LexLeq(_, _)
LexLeq(s, t) ==
    IF s = <<>> THEN TRUE
    ELSE IF t = <<>> THEN FALSE
    ELSE IF Head(s) # Head(t) THEN Head(s) < Head(t)
    ELSE LexLeq(Tail(s), Tail(t))

RecordKeys == Fields \cup {"timestamp"}

MakeEntryNoSnapshot(prof, t) ==
    [k \in RecordKeys |-> IF k = "timestamp" THEN IsoFormat(t) ELSE None]

\* entry = asdict(profile); entry["timestamp"] = datetime.now().isoformat()
MakeEntry(prof, t) ==
    [k \in RecordKeys |-> IF k = "timestamp" THEN IsoFormat(t) ELSE prof[k]]

ProfileResetBySnapshot(prof) == [f \in DOMAIN prof |-> None]

\* the profile after asdict(profile) and entry["timestamp"] = ...: asdict
\* builds a new dict, the assignment goes to that dict
ProfileAfterSnapshot(prof) == prof

\* how an f-string renders an Optional[str]
FormatValue(v) == IF v = None THEN "None" ELSE v

\* the f-string returned by submit_lead_and_end
ClosingMessage(prof) ==
    << "Thanks ", FormatValue(prof["name"]),
       "! I have recorded your interest in ", FormatValue(prof["use_case"]),
       ". We will contact you soon at ", FormatValue(prof["email"]),
       ". Goodbye!" >>

\* what a call that raised leaves as its outcome
AttributeError == <<"AttributeError">>

\* json.dump / json.load of one value of a lead record: None <-> null,
\* str <-> JSON string
JsonNull == <<"null">>
JsonString(s) == <<"string", s>>
JsonEncodeValue(k, v) ==
    IF k = "timestamp" THEN JsonString(v)
    ELSE IF v = None THEN JsonNull ELSE JsonString(v)

JsonDecodeValueNullAsText(k, j) == IF j = JsonNull THEN "None" ELSE j[2]

JsonDecodeValue(k, j) == IF j = JsonNull THEN None ELSE j[2]


JsonEncodeObject(d) == [k \in DOMAIN d |-> JsonEncodeValue(k, d[k])]
JsonDecodeObject(o) == [k \in DOMAIN o |-> JsonDecodeValue(k, o[k])]

\* A Python value held in existing_data: a list of dicts, or a value of
\* another type (dict, str, int) that json.load returned.
PyOf(type, items) == [type |-> type, items |-> items]
PyEmptyList == PyOf("list", <<>>)
PyTypeOf(jsonType) ==
    CASE jsonType = "array" -> "list"
      [] jsonType = "object" -> "dict"
      [] jsonType = "string" -> "str"
      [] jsonType = "number" -> "int"

\* json.load(f) on content it accepts
JsonLoad(f) ==
    PyOf(PyTypeOf(f.type),
         [i \in 1..Len(f.items) |-> JsonDecodeObject(f.items[i])])

\* json.dump(existing_data, f, indent=4) of a list of dicts
JsonDump(data) ==
    FileOf("array", [i \in 1..Len(data.items) |-> JsonEncodeObject(data.items[i])])

ExistingDataNoneWhenAbsent(f) ==
    IF f.type = "absent" THEN PyOf("NoneType", <<>>)
    ELSE IF f.type \in UnparseableTypes THEN PyEmptyList
    ELSE JsonLoad(f)

ExistingDataNeverLoaded(f) == PyEmptyList

ExistingDataMerging(f) ==
    IF f.type = "absent" THEN PyEmptyList
    ELSE IF f.type \in UnparseableTypes THEN PyOf("list", f.items)
    ELSE JsonLoad(f)

\* existing_data = []; if os.path.exists(db_path): try: json.load  except: pass
ExistingData(f) ==
    IF f.type = "absent" THEN PyEmptyList
    ELSE IF f.type \in UnparseableTypes THEN PyEmptyList
    ELSE JsonLoad(f)

\* existing_data.append exists only on a list
HasAppend(data) == data.type = "list"

AppendedInFront(data, e) == PyOf("list", <<e>> \o data.items)

AppendedNothing(data, e) == data

\* existing_data.append(entry)
Appended(data, e) == PyOf("list", Append(data.items, e))

\* open(db_path, "w"): the file exists and has zero bytes
Truncated == FileOf("empty", <<>>)

OpenForWriteKeeps(f) == f

\* the file right after open(db_path, "w"), whatever it held
OpenForWrite(f) == Truncated

\* the file when json.dump(existing_data, f, indent=4) stops before its end:
\* nothing flushed yet, or a proper prefix of the array's text
PartialDump(data) == {Truncated, FileOf("invalid", JsonDump(data).items)}

OSError == <<"OSError">>

\* the time that passed between two readings of datetime.now(); the wall
\* clock is taken not to step backwards between two calls
ClockDeltas == {0, 1}

\* --------------------------------------------------------- knowledge base
\* one {"question": ..., "answer": ...} object
QA(q, a) == [question |-> q, answer |-> a]

\* DEFAULT_FAQ, in its order (answers abbreviated)
DEFAULT_FAQ ==
    << QA("What do you sell?", "I offer professional training ..."),
       QA("How much does the AI course cost?", "The AI & Chatbot Development course ..."),
       QA("Do you provide certificates?", "Yes, all paid courses ..."),
       QA("Do you offer project help?", "Yes, I help students ...") >>

\* the inverse of PyTypeOf: the JSON type json.dumps writes for a Python value
JsonTypeOf(pyType) ==
    CASE pyType = "list" -> "array"
      [] pyType = "dict" -> "object"
      [] pyType = "str" -> "string"
      [] pyType = "int" -> "number"

\* json.dumps(value): the JSON text of a Python value
JsonDumps(v) == IF v.type = "list" THEN JsonDump(v) ELSE FileOf(JsonTypeOf(v.type), <<>>)

\* arvind_store_faq.json as json.dump(DEFAULT_FAQ, f, indent=4) writes it
DefaultFaqFile == JsonDump(PyOf("list", DEFAULT_FAQ))

\* the "" that load_knowledge_base returns from its except branch
EmptyBlob == FileOf("empty", <<>>)

\* question/answer pairs somebody else put into the knowledge-base file
OtherQA == { QA("x?", "x."), QA("y?", "y.") }

\* the contents the knowledge-base file can be given from outside: arrays of
\* pairs in either order, the default set, a JSON object, damaged bytes,
\* zero bytes
FaqContents ==
    { JsonDump(PyOf("list", items)) :
        items \in {<<>>} \cup { <<a>> : a \in OtherQA }
                  \cup { <<a, b>> : a, b \in OtherQA } }
    \cup { DefaultFaqFile, FileOf("object", <<>>), FileOf("invalid", <<>>), Truncated }

\* the I/O errors the environment can raise during one load_knowledge_base
\* call: none, OSError while the default set is written, OSError while the
\* file is opened for reading, UnicodeDecodeError while it is read
Faults == {"none", "seed", "open", "decode"}

NeedsSeedAlways(f) == TRUE

\* if not os.path.exists(path)
NeedsSeed(f) == f.type = "absent"

FileBeingReadUnseeded(f) == f

\* the file the second `with open(path, "r")` reads: the seeded default set
\* when the file was absent, else the file as found
FileBeingRead(f) == IF NeedsSeed(f) THEN DefaultFaqFile ELSE f

\* the exception raised inside the try block, "none" if none
ErrorOf(f, fault) ==
    IF NeedsSeed(f) /\ fault = "seed" THEN "OSError"
    ELSE IF fault = "open" \/ FileBeingRead(f).type = "absent" THEN "OSError"
    ELSE IF fault = "decode" THEN "UnicodeDecodeError"
    ELSE IF FileBeingRead(f).type \in UnparseableTypes THEN "JSONDecodeError"
    ELSE "none"

CaughtOnlyOSError(err) == err = "OSError"

\* except Exception: OSError, UnicodeDecodeError and JSONDecodeError are
\* subclasses of Exception
Caught(err) == err \in {"OSError", "UnicodeDecodeError", "JSONDecodeError"}

\* the file after the call: a failed seeding leaves no file (open failed) or
\* a file of zero bytes (open succeeded, the write did not)
FaqAfterLoad(f, fault) ==
    IF NeedsSeed(f)
    THEN IF fault = "seed" THEN {FileOf("absent", <<>>), Truncated} ELSE {DefaultFaqFile}
    ELSE {f}

\* ------------------------------------------------------------------ state
VARIABLES
    profile,        \* [Procs -> LeadProfile]: ctx.userdata.lead_profile of each worker's session
    file,           \* the content of arvind_leads_db.json
    now,            \* the last reading of datetime.now()
    result,         \* [Procs -> value]: what each worker's last tool call returned or raised
    pc,             \* [Procs -> position]: where each worker is in submit_lead_and_end
    entry,          \* [Procs -> dict]: the local `entry`
    existing_data,  \* [Procs -> Python value]: the local `existing_data`
    submits,        \* number of submit_lead_and_end calls started
    returned,       \* number of submit_lead_and_end calls that returned their message
    calls,          \* history: the calls made on a store only submit_lead_and_end wrote, in call order
    lastSupplied,   \* history: per session and field, the last non-empty value passed
    submitted,      \* history: whether the session has called submit_lead_and_end
    tampered,       \* history: whether anything but submit_lead_and_end wrote the file
    lost,           \* history: the number of records in the file the environment last deleted or damaged
    before,         \* history: the state (absent, array, ...) of the file the last submit_lead_and_end call found
    keptSet,        \* history: whether the last update call passed "" for a field that was set
    overlapped,     \* history: whether two submit_lead_and_end calls overlapped
    lastOp,         \* history: the operation that made the last step
    faq,            \* the content of arvind_store_faq.json
    blob,           \* STORE_FAQ_TEXT: what load_knowledge_base returned
    loaded,         \* whether load_knowledge_base has run, and returned or raised
    kbError,        \* history: the exception raised inside the last load_knowledge_base call
    kbFault,        \* history: the I/O error the environment raised during the last load_knowledge_base call
    kbFound         \* history: the state (absent, array, ...) of the file the last load_knowledge_base call found

vars == << profile, file, now, result, pc, entry, existing_data, submits, returned,
           calls, lastSupplied, submitted, tampered, lost, before, keptSet,
           overlapped, lastOp, faq, blob, loaded, kbError, kbFault, kbFound >>

kb == << faq, blob, loaded, kbError, kbFault, kbFound >>

locals == << pc, entry, existing_data >>

NoResult == <<>>
NoEntry == MakeEntry(EmptyProfile, 0)

\* The worker has started with a fresh Userdata(lead_profile=LeadProfile());
\* the store file is absent or holds an empty array; the module's import has
\* loaded the knowledge base from a file it had to seed.
Init ==
    /\ profile = [p \in Procs |-> EmptyProfile]
    /\ file \in {Absent, EmptyList}
    /\ now = 0
    /\ result = [p \in Procs |-> NoResult]
    /\ pc = [p \in Procs |-> "idle"]
    /\ entry = [p \in Procs |-> NoEntry]
    /\ existing_data = [p \in Procs |-> PyEmptyList]
    /\ submits = 0
    /\ returned = 0
    /\ calls = <<>>
    /\ lastSupplied = [p \in Procs |-> EmptyProfile]
    /\ submitted = [p \in Procs |-> FALSE]
    /\ tampered = FALSE
    /\ lost = 0
    /\ before = "none"
    /\ keptSet = FALSE
    /\ overlapped = FALSE
    /\ lastOp = "init"
    /\ faq = DefaultFaqFile
    /\ blob = DefaultFaqFile
    /\ loaded = "returned"
    /\ kbError = "none"
    /\ kbFault = "none"
    /\ kbFound = "absent"

\* history of the arguments: a non-empty string replaces what was recorded
Supplied(seen, args) ==
    [f \in Fields |-> IF args[f] \in Strings THEN args[f] ELSE seen[f]]

\* entrypoint: userdata = Userdata(lead_profile=LeadProfile()) for a new session
NewSession(p) ==
    /\ pc[p] = "idle"
    /\ profile[p] # EmptyProfile \/ submitted[p]
    /\ profile' = [profile EXCEPT ![p] = EmptyProfile]
    /\ lastSupplied' = [lastSupplied EXCEPT ![p] = EmptyProfile]
    /\ submitted' = [submitted EXCEPT ![p] = FALSE]
    /\ keptSet' = FALSE
    /\ lastOp' = "new_session"
    /\ UNCHANGED << kb, file, now, result, locals, submits, returned, calls, tampered,
                    lost, before, overlapped >>

\* update_lead_profile(ctx, **args)
UpdateLeadProfile(p, args) ==
    /\ pc[p] = "idle"
    /\ profile' = [profile EXCEPT ![p] = MergeFields(profile[p], args)]
    /\ result' = [result EXCEPT ![p] = UpdateAck]
    /\ lastSupplied' = [lastSupplied EXCEPT ![p] = Supplied(lastSupplied[p], args)]
    /\ keptSet' = (\E f \in Fields : args[f] = "" /\ profile[p][f] # None)
    /\ lastOp' = "update"
    /\ UNCHANGED << kb, file, now, locals, submits, returned, calls, submitted, tampered,
                    lost, before, overlapped >>

\* the record of one call in the history `calls`
CallOf(p) == [p |-> p, profile |-> profile[p], fresh |-> ~submitted[p]]

\* submit_lead_and_end(ctx), run without interruption
SubmitLeadAndEnd(p) ==
    /\ pc[p] = "idle"
    /\ submits < MaxSubmits
    /\ submits' = submits + 1
    /\ \E d \in ClockDeltas :
         LET t == now + d
             e == MakeEntry(profile[p], t)
             data == ExistingData(file)
         IN /\ now' = t
            /\ IF HasAppend(data)
               THEN /\ file' = JsonDump(Appended(data, e))
                    /\ result' = [result EXCEPT ![p] = ClosingMessage(profile[p])]
                    /\ returned' = returned + 1
               ELSE /\ file' = file
                    /\ result' = [result EXCEPT ![p] = AttributeError]
                    /\ returned' = returned
    /\ calls' = IF tampered THEN calls ELSE Append(calls, CallOf(p))
    /\ submitted' = [submitted EXCEPT ![p] = TRUE]
    /\ profile' = [profile EXCEPT ![p] = ProfileAfterSnapshot(profile[p])]
    /\ before' = file.type
    /\ lastOp' = "submit"
    /\ UNCHANGED << kb, locals, lastSupplied, tampered, lost, keptSet, overlapped >>

\* what every step of the environment on the store file does to the history
Tamper(op) ==
    /\ \A p \in Procs : pc[p] = "idle"
    /\ tampered' = TRUE
    /\ calls' = <<>>
    /\ lastOp' = op
    /\ lost' = Len(file.items)
    /\ UNCHANGED << kb, profile, now, result, locals, submits, returned, lastSupplied,
                    submitted, before, keptSet, overlapped >>

\* the environment removes the store file
DeleteStore ==
    /\ file.type # "absent"
    /\ file' = Absent
    /\ Tamper("delete")

\* the environment damages the store file: its bytes no longer parse
DamageStore ==
    /\ file.type \notin UnparseableTypes
    /\ \/ file' = FileOf("invalid", file.items)
       \/ file' = Truncated
    /\ Tamper("damage")

\* the environment replaces the store file by valid JSON that is not an array
ReplaceStore(type) ==
    /\ file.type # type
    /\ file' = FileOf(type, <<>>)
    /\ Tamper("replace")

\* one worker, its tool calls one after the other, and the environment
Next ==
    \/ NewSession(Main)
    \/ \E args \in ScenarioArgs : UpdateLeadProfile(Main, args)
    \/ SubmitLeadAndEnd(Main)
    \/ DeleteStore
    \/ DamageStore
    \/ \E type \in NonArrayTypes : ReplaceStore(type)

Spec == Init /\ [][Next]_vars

\* one session's profile under every update call
NextProfile ==
    \/ NewSession(Main)
    \/ \E args \in UpdateArgs : UpdateLeadProfile(Main, args)

SpecProfile == Init /\ [][NextProfile]_vars

\* ------------------------------------------------- two worker processes
\* What the file holds after json.dump and close by a worker that opened it
\* for writing: its own array if nothing was written since its open, else
\* its bytes laid over the other writer's, which are its own array or, when
\* the other's were longer, bytes that do not parse.
DumpOutcomes(cur, data) ==
    IF cur.type = "empty"
    THEN {JsonDump(data)}
    ELSE {JsonDump(data), FileOf("invalid", JsonDump(data).items)}

\* lines 133-137: profile = ...; entry = asdict(profile); entry["timestamp"] = now
SubmitBegin(p) ==
    /\ pc[p] = "idle"
    /\ submits < MaxSubmits
    /\ submits' = submits + 1
    /\ \E d \in ClockDeltas :
         /\ now' = now + d
         /\ entry' = [entry EXCEPT ![p] = MakeEntry(profile[p], now + d)]
    /\ pc' = [pc EXCEPT ![p] = "load"]
    /\ calls' = IF tampered THEN calls ELSE Append(calls, CallOf(p))
    /\ submitted' = [submitted EXCEPT ![p] = TRUE]
    /\ overlapped' = (overlapped \/ \E q \in Procs \ {p} : pc[q] # "idle")
    /\ profile' = [profile EXCEPT ![p] = ProfileAfterSnapshot(profile[p])]
    /\ UNCHANGED << kb, file, result, existing_data, returned, lastSupplied,
                    tampered, lost, before, keptSet, lastOp >>

\* lines 139-144: existing_data = [] unless the file exists and parses
SubmitLoad(p) ==
    /\ pc[p] = "load"
    /\ existing_data' = [existing_data EXCEPT ![p] = ExistingData(file)]
    /\ before' = file.type
    /\ pc' = [pc EXCEPT ![p] = "open"]
    /\ UNCHANGED << kb, profile, file, now, result, entry, submits, returned, calls,
                    lastSupplied, submitted, tampered, lost, keptSet, overlapped,
                    lastOp >>

\* lines 146-148: existing_data.append(entry); open(db_path, "w")
SubmitOpen(p) ==
    /\ pc[p] = "open"
    /\ IF HasAppend(existing_data[p])
       THEN /\ existing_data' =
                 [existing_data EXCEPT ![p] = Appended(existing_data[p], entry[p])]
            /\ file' = OpenForWrite(file)
            /\ pc' = [pc EXCEPT ![p] = "dump"]
            /\ UNCHANGED << kb, result, lastOp >>
       ELSE /\ result' = [result EXCEPT ![p] = AttributeError]
            /\ pc' = [pc EXCEPT ![p] = "idle"]
            /\ lastOp' = "submit"
            /\ UNCHANGED << kb, existing_data, file >>
    /\ UNCHANGED << kb, profile, now, entry, submits, returned, calls, lastSupplied,
                    submitted, tampered, lost, before, keptSet, overlapped >>

\* lines 149-152: json.dump(existing_data, f); close; return the message
SubmitDump(p) ==
    /\ pc[p] = "dump"
    /\ file' \in DumpOutcomes(file, existing_data[p])
    /\ result' = [result EXCEPT ![p] = ClosingMessage(profile[p])]
    /\ returned' = returned + 1
    /\ pc' = [pc EXCEPT ![p] = "idle"]
    /\ lastOp' = "submit"
    /\ UNCHANGED << kb, profile, now, entry, existing_data, submits, calls, lastSupplied,
                    submitted, tampered, lost, before, keptSet, overlapped >>

\* two workers on one store file, no lock: their file system calls interleave
NextConc ==
    \E p \in Procs :
        \/ \E args \in ConcurrentArgs : UpdateLeadProfile(p, args)
        \/ SubmitBegin(p)
        \/ SubmitLoad(p)
        \/ SubmitOpen(p)
        \/ SubmitDump(p)

SpecConc == Init /\ [][NextConc]_vars

\* ------------------------------------------- failures during the rewrite
\* the records a worker at `pc` had read from the file it has since opened
\* for writing
RecordsAtStake(p) ==
    IF pc[p] = "dump" THEN Len(existing_data[p].items) - 1 ELSE 0

\* the file a worker leaves when it stops at `pc`: before open(db_path, "w")
\* it has not touched the file
FileLeftBy(p) ==
    IF pc[p] = "dump" THEN PartialDump(existing_data[p]) ELSE {file}

\* the worker process dies inside submit_lead_and_end; the next one starts
\* with a fresh LeadProfile() and no locals
Crash(p) ==
    /\ pc[p] # "idle"
    /\ file' \in FileLeftBy(p)
    /\ lost' = RecordsAtStake(p)
    /\ pc' = [pc EXCEPT ![p] = "idle"]
    /\ entry' = [entry EXCEPT ![p] = NoEntry]
    /\ existing_data' = [existing_data EXCEPT ![p] = PyEmptyList]
    /\ profile' = [profile EXCEPT ![p] = EmptyProfile]
    /\ lastSupplied' = [lastSupplied EXCEPT ![p] = EmptyProfile]
    /\ submitted' = [submitted EXCEPT ![p] = FALSE]
    /\ result' = [result EXCEPT ![p] = NoResult]
    /\ keptSet' = FALSE
    /\ lastOp' = "crash"
    /\ UNCHANGED << kb, now, submits, returned, calls, tampered, before, overlapped >>

\* json.dump raises inside `with open(db_path, "w") as f` (the disk is full):
\* the file is closed as it is and the tool call raises
DumpFails(p) ==
    /\ pc[p] = "dump"
    /\ file' \in FileLeftBy(p)
    /\ lost' = RecordsAtStake(p)
    /\ result' = [result EXCEPT ![p] = OSError]
    /\ pc' = [pc EXCEPT ![p] = "idle"]
    /\ lastOp' = "dump_failed"
    /\ UNCHANGED << kb, profile, now, entry, existing_data, submits, returned, calls,
                    lastSupplied, submitted, tampered, before, keptSet, overlapped >>

\* one worker whose submit_lead_and_end can stop at any of its steps
NextCrash ==
    \/ \E args \in ConcurrentArgs : UpdateLeadProfile(Main, args)
    \/ SubmitBegin(Main)
    \/ SubmitLoad(Main)
    \/ SubmitOpen(Main)
    \/ SubmitDump(Main)
    \/ Crash(Main)
    \/ DumpFails(Main)

SpecCrash == Init /\ [][NextCrash]_vars

\* ------------------------------------------------- knowledge base loader
\* Before the module's import: no load yet, the knowledge-base file absent
\* or with any content.
InitKB ==
    /\ profile = [p \in Procs |-> EmptyProfile]
    /\ file = Absent
    /\ now = 0
    /\ result = [p \in Procs |-> NoResult]
    /\ pc = [p \in Procs |-> "idle"]
    /\ entry = [p \in Procs |-> NoEntry]
    /\ existing_data = [p \in Procs |-> PyEmptyList]
    /\ submits = 0
    /\ returned = 0
    /\ calls = <<>>
    /\ lastSupplied = [p \in Procs |-> EmptyProfile]
    /\ submitted = [p \in Procs |-> FALSE]
    /\ tampered = FALSE
    /\ lost = 0
    /\ before = "none"
    /\ keptSet = FALSE
    /\ overlapped = FALSE
    /\ lastOp = "init"
    /\ faq \in {Absent} \cup FaqContents
    /\ blob = EmptyBlob
    /\ loaded = "no"
    /\ kbError = "none"
    /\ kbFault = "none"
    /\ kbFound = "none"

store == << profile, file, now, result, pc, entry, existing_data, submits, returned,
           calls, lastSupplied, submitted, tampered, lost, before, keptSet,
           overlapped >>

\* STORE_FAQ_TEXT = load_knowledge_base(), at the import of the module by a
\* starting worker
LoadKnowledgeBase(fault) ==
    /\ fault = "seed" => NeedsSeed(faq)
    /\ LET err == ErrorOf(faq, fault)
       IN /\ kbError' = err
          /\ kbFault' = fault
          /\ kbFound' = faq.type
          /\ faq' \in FaqAfterLoad(faq, fault)
          /\ IF err = "none"
             THEN /\ blob' = JsonDumps(JsonLoad(FileBeingRead(faq)))
                  /\ loaded' = "returned"
             ELSE IF Caught(err)
             THEN /\ blob' = EmptyBlob
                  /\ loaded' = "returned"
             ELSE /\ blob' = blob
                  /\ loaded' = "raised"
    /\ lastOp' = "load"
    /\ UNCHANGED store

\* somebody replaces the content of the knowledge-base file
WriteFaq(content) ==
    /\ faq # content
    /\ faq' = content
    /\ lastOp' = "write_faq"
    /\ UNCHANGED << store, blob, loaded, kbError, kbFault, kbFound >>

\* somebody removes the knowledge-base file
DeleteFaq ==
    /\ faq.type # "absent"
    /\ faq' = Absent
    /\ lastOp' = "delete_faq"
    /\ UNCHANGED << store, blob, loaded, kbError, kbFault, kbFound >>

\* workers start (each start loads the knowledge base) while the file is
\* edited or removed between starts
NextKB ==
    \/ \E fault \in Faults : LoadKnowledgeBase(fault)
    \/ \E content \in FaqContents : WriteFaq(content)
    \/ DeleteFaq

SpecKB == InitKB /\ [][NextKB]_vars

\* ================================================================= claims
QualifyingFields == {"name", "email", "use_case"}
OtherFields == Fields \ QualifyingFields

\* a profile value that is set: a non-empty string
IsSet(v) == v \in Strings

\* the step was a submit_lead_and_end call of the single worker
SubmitStep == lastOp' = "submit"
\* ... that returned its closing message
SubmitReturned == SubmitStep /\ returned' = returned + 1

LastRecord(f) == f.items[Len(f.items)]
\* the stored form of a profile snapshot taken at clock reading t
StoredRecord(prof, t) ==
    [k \in RecordKeys |->
        IF k = "timestamp" THEN <<"string", IsoFormat(t)>>
        ELSE IF prof[k] = None THEN <<"null">> ELSE <<"string", prof[k]>>]
\* the profile a stored record holds
ProfileIn(rec) == [f \in Fields |-> IF rec[f] = <<"null">> THEN None ELSE rec[f][2]]

\* C1: after any sequence of update_lead_profile calls of a session, every
\* field holds the last non-empty value passed for it, and None if none was:
\* an empty or omitted argument neither overwrites nor clears a field.
C1_LastNonEmptyValueWins ==
    \A f \in Fields : profile[Main][f] = lastSupplied[Main][f]

\* a call passed "" for a set field, and the field kept its value
C1_Witness ==
    /\ lastOp = "update"
    /\ keptSet
    /\ \E f \in Fields : profile[Main][f] = "b"
    /\ \E f \in Fields : profile[Main][f] = None

\* C2: is_qualified is true exactly when name, email and use_case are all
\* non-empty strings, whatever company, role, team_size and timeline hold.
C2_QualifiedIffThreeFieldsSet ==
    /\ IsQualified(profile[Main]) <=>
          \A f \in QualifyingFields : IsSet(profile[Main][f])
    /\ \A other \in [OtherFields -> ArgValues] :
          IsQualified([f \in Fields |->
                         IF f \in OtherFields THEN other[f] ELSE profile[Main][f]])
            = IsQualified(profile[Main])

\* a qualified profile whose four other fields are unset
C2_Witness ==
    /\ lastOp = "update"
    /\ IsQualified(profile[Main])
    /\ \A f \in OtherFields : profile[Main][f] = None

\* C3: submit_lead_and_end does not require is_qualified: on any profile,
\* with the store absent or a well-formed array, it returns its message and
\* the store holds exactly one record more.
C3_SubmitOnAnyProfileAppendsOne ==
    [][ SubmitStep /\ file.type \in {"absent", "array"}
          => /\ result'[Main] = ClosingMessage(profile[Main])
             /\ file'.type = "array"
             /\ Len(file'.items) = Len(file.items) + 1 ]_vars

\* the empty profile was submitted to a store that held a record
C3_Witness ==
    /\ lastOp = "submit"
    /\ before = "array"
    /\ profile[Main] = EmptyProfile
    /\ ~IsQualified(profile[Main])
    /\ result[Main] = ClosingMessage(EmptyProfile)
    /\ Len(file.items) = 2

Timestamp(rec) == rec["timestamp"][2]

\* C4: while only submit_lead_and_end has written a store that started
\* absent or empty, N calls one after the other leave exactly N records,
\* record i holding the profile of the i-th call, with timestamps that do
\* not decrease along the array.
C4_SequentialCallsKeepCallOrder ==
    ~tampered =>
        /\ file.type \in {"absent", "array"}
        /\ Len(file.items) = Len(calls)
        /\ Len(calls) = submits
        /\ \A i \in 1..Len(calls) : ProfileIn(file.items[i]) = calls[i].profile
        /\ \A i \in 1..Len(file.items) : \A j \in i..Len(file.items) :
              LexLeq(Timestamp(file.items[i]), Timestamp(file.items[j]))

\* two calls, each the first of a fresh session, on different profiles
C4_Witness ==
    /\ ~tampered
    /\ Len(calls) = 2
    /\ calls[1].fresh /\ calls[2].fresh
    /\ calls[1].profile # calls[2].profile
    /\ Len(file.items) = 2
    /\ Timestamp(file.items[1]) # Timestamp(file.items[2])

\* C5: the store is append-only: a submit_lead_and_end call on a well-formed
\* array leaves that array with one record appended, and an update call or a
\* new session leaves it as it is; no earlier record changes.
C5_AppendOnly ==
    [][ file.type = "array" /\ lastOp' \in {"submit", "update", "new_session"}
          => /\ file'.type = "array"
             /\ Len(file'.items) = Len(file.items) + (IF SubmitStep THEN 1 ELSE 0)
             /\ SubSeq(file'.items, 1, Len(file.items)) = file.items ]_vars

\* an update made after the session's finalize, the two records still there
C5_Witness ==
    /\ lastOp = "update"
    /\ submitted[Main]
    /\ ~tampered
    /\ file.type = "array"
    /\ Len(file.items) = 2
    /\ ProfileIn(file.items[2]) # profile[Main]

\* C6: the record a successful call persists has exactly the keys of the
\* seven profile fields and timestamp, each field with the profile's value at
\* call time (null if never set), and the returned message interpolates the
\* profile's name, use_case and email.
C6_RecordIsSnapshot ==
    [][ SubmitReturned
          => /\ DOMAIN LastRecord(file') = RecordKeys
             /\ LastRecord(file') = StoredRecord(profile[Main], now')
             /\ Len(result'[Main]) = 7
             /\ result'[Main][2] = FormatValue(profile[Main]["name"])
             /\ result'[Main][4] = FormatValue(profile[Main]["use_case"])
             /\ result'[Main][6] = FormatValue(profile[Main]["email"]) ]_vars

\* update(name="a", email="b"), update(use_case="a"), finalize
C6_Witness ==
    /\ lastOp = "submit"
    /\ file.type = "array" /\ Len(file.items) >= 1
    /\ LastRecord(file)["name"] = <<"string", "a">>
    /\ LastRecord(file)["email"] = <<"string", "b">>
    /\ LastRecord(file)["use_case"] = <<"string", "a">>
    /\ \A f \in OtherFields : LastRecord(file)[f] = <<"null">>
    /\ result[Main][2] = "a" /\ result[Main][4] = "a" /\ result[Main][6] = "b"

\* C7: a call that finds unparseable content in the store file returns its
\* message and leaves a one-element array holding only the new record.
C7_MalformedStoreIsReplaced ==
    [][ SubmitStep /\ file.type \in UnparseableTypes
          => /\ result'[Main] = ClosingMessage(profile[Main])
             /\ file' = FileOf("array", <<StoredRecord(profile[Main], now')>>) ]_vars

\* a file that held a record was damaged, and the next call replaced it
C7_Witness ==
    /\ lastOp = "submit"
    /\ before = "invalid"
    /\ lost >= 1
    /\ file.type = "array" /\ Len(file.items) = 1

\* C8: a call that finds the store file deleted returns its message and
\* recreates the file as an array of exactly the new record.
C8_DeletedStoreIsRecreated ==
    [][ SubmitStep /\ file.type = "absent"
          => /\ result'[Main] = ClosingMessage(profile[Main])
             /\ file'.type = "array"
             /\ Len(file'.items) = 1
             /\ ProfileIn(file'.items[1]) = profile[Main] ]_vars

\* the file was deleted while it held a record, and the next call recreated it
C8_Witness ==
    /\ lastOp = "submit"
    /\ before = "absent"
    /\ tampered
    /\ lost >= 1
    /\ submits >= 2
    /\ file.type = "array" /\ Len(file.items) = 1

\* C9: submit_lead_and_end has no failing path: whatever the store file
\* holds, the call returns the closing message and persists the new record.
C9_SubmitNeverRaises ==
    [][ SubmitStep
          => /\ result'[Main] = ClosingMessage(profile[Main])
             /\ file'.type = "array"
             /\ LastRecord(file') = StoredRecord(profile[Main], now') ]_vars

\* C10: when the submit_lead_and_end calls of the two workers never overlap,
\* no record is lost: once all calls have returned, the store is an array
\* with one record per call, in call order. (The witness is the lost update:
\* two overlapping calls both return and the store holds one record.)
C10_NoLossWithoutOverlap ==
    (~overlapped /\ \A p \in Procs : pc[p] = "idle") =>
        /\ returned = submits
        /\ file.type \in {"absent", "array"}
        /\ Len(file.items) = returned
        /\ \A i \in 1..Len(calls) : ProfileIn(file.items[i]) = calls[i].profile

\* both workers' calls returned their message, one record is in the store
C10_Witness ==
    /\ overlapped
    /\ \A p \in Procs : pc[p] = "idle" /\ result[p] = ClosingMessage(profile[p])
    /\ returned = 2
    /\ Len(calls) = 2 /\ calls[1].p # calls[2].p
    /\ file.type = "array"
    /\ Len(file.items) = 1

\* C11: update_lead_profile is idempotent: from every profile state and for
\* every argument mapping, the profile after two calls with the same
\* arguments is the profile after one, and every call returns the same
\* acknowledgement.
C11_UpdateIsIdempotent ==
    /\ \A args \in UpdateArgs :
          MergeFields(MergeFields(profile[Main], args), args)
            = MergeFields(profile[Main], args)
    /\ lastOp = "update" => result[Main] = UpdateAck

\* the state an update call with two values left, on which the same call
\* changes nothing
C11_Witness ==
    /\ lastOp = "update"
    /\ result[Main] = UpdateAck
    /\ \E args \in UpdateArgs :
          /\ Cardinality({f \in Fields : args[f] \in Strings}) = 2
          /\ MergeFields(EmptyProfile, args) = profile[Main]
          /\ MergeFields(profile[Main], args) = profile[Main]

\* the step was a load_knowledge_base call
LoadStep == lastOp' = "load"

\* C13: load_knowledge_base seeds before it reads: when the environment
\* raises no I/O error, a call that finds no file leaves the default set in
\* the file and returns its serialization in the original order, and a call
\* that finds a file that parses returns the file's content in its order; a
\* file that is present is never overwritten, error or not.
C13_SeedsBeforeReading ==
    [][ LoadStep =>
          /\ faq.type # "absent" => faq' = faq
          /\ kbFault' = "none" =>
                /\ loaded' = "returned"
                /\ faq.type = "absent" =>
                      /\ faq' = DefaultFaqFile
                      /\ blob'.type = "array"
                      /\ Len(blob'.items) = Len(DEFAULT_FAQ)
                      /\ \A i \in 1..Len(DEFAULT_FAQ) : \A k \in {"question", "answer"} :
                            blob'.items[i][k] = <<"string", DEFAULT_FAQ[i][k]>>
                /\ faq.type \notin {"absent"} \cup UnparseableTypes => blob' = faq ]_vars

\* a load that found no file, seeded it and returned the default set
C13_Witness ==
    /\ lastOp = "load"
    /\ kbFound = "absent"
    /\ kbFault = "none"
    /\ faq = DefaultFaqFile
    /\ blob = DefaultFaqFile
    /\ Len(blob.items) = 4

\* a load that found a two-pair file and returned it in the file's order
C13_WitnessPresent ==
    /\ lastOp = "load"
    /\ kbFound = "array"
    /\ kbError = "none"
    /\ blob = faq
    /\ Len(faq.items) = 2
    /\ faq.items[1] # faq.items[2]

\* C14: load_knowledge_base never fails: when seeding, opening, reading or
\* parsing raises, the call returns the empty blob and lets no error out.
C14_LoadNeverFails ==
    [][ LoadStep =>
          /\ loaded' = "returned"
          /\ kbError' # "none" => blob' = EmptyBlob ]_vars

\* a load that found damaged bytes in the file and returned the empty blob
C14_Witness ==
    /\ lastOp = "load"
    /\ kbFound = "invalid"
    /\ kbError = "JSONDecodeError"
    /\ faq.type = "invalid"
    /\ loaded = "returned"
    /\ blob = EmptyBlob

\* C15: within a session, whatever update_lead_profile and
\* submit_lead_and_end calls follow each other, a field that is set stays
\* set, and so is_qualified, once true, stays true.
C15_SetFieldsStaySet ==
    [][ lastOp' # "new_session" =>
          /\ \A f \in Fields : IsSet(profile[Main][f]) => IsSet(profile'[Main][f])
          /\ IsQualified(profile[Main]) => IsQualified(profile'[Main]) ]_vars

\* a qualified session that has finalized and then passed "" for a set field
C15_Witness ==
    /\ lastOp = "update"
    /\ keptSet
    /\ submitted[Main]
    /\ IsQualified(profile[Main])

\* C16: the two operations write disjoint state: submit_lead_and_end leaves
\* the seven profile fields as they are, and update_lead_profile leaves the
\* store file as it is (absent stays absent).
C16_DisjointWriteSets ==
    [][ /\ SubmitStep => profile' = profile
        /\ lastOp' = "update" => file' = file ]_vars

\* a finalize on a non-empty profile: the record is written and the profile
\* is as it was
C16_Witness ==
    /\ lastOp = "submit"
    /\ profile[Main] # EmptyProfile
    /\ file.type = "array"
    /\ ProfileIn(LastRecord(file)) = profile[Main]

\* C17: the core has no session-ended state: after a finalize the session's
\* profile is still there, both tools stay callable, and a further finalize
\* in the same session appends one more record, with the same fields when no
\* update came between: on a store that only the tool has written, k calls
\* leave k records.
C17_EveryFinalizeAppends ==
    /\ [][ SubmitStep /\ submitted[Main] /\ ~tampered
              => /\ result'[Main] = ClosingMessage(profile[Main])
                 /\ file.type = "array" /\ file'.type = "array"
                 /\ Len(file'.items) = Len(file.items) + 1
                 /\ Len(file'.items) = Len(calls')
                 /\ ProfileIn(LastRecord(file)) = profile[Main]
                      => ProfileIn(LastRecord(file')) = ProfileIn(LastRecord(file)) ]_vars
    /\ [](submitted[Main] =>
            /\ submits < MaxSubmits => ENABLED SubmitLeadAndEnd(Main)
            /\ \A args \in ScenarioArgs : ENABLED UpdateLeadProfile(Main, args))

\* two finalize calls of one session with no update between: two records
\* with the same fields
C17_Witness ==
    /\ lastOp = "submit"
    /\ ~tampered
    /\ Len(calls) = 2
    /\ ~calls[2].fresh
    /\ calls[1].profile = calls[2].profile
    /\ calls[1].profile # EmptyProfile
    /\ Len(file.items) = 2
    /\ ProfileIn(file.items[1]) = ProfileIn(file.items[2])

\* the step in which submit_lead_and_end stops before its write is complete
StopStep ==
    /\ lastOp' \in {"crash", "dump_failed"}
    /\ pc[Main] # "idle"
    /\ pc'[Main] = "idle"

\* C18: the rewrite is not atomic: once the file is open for writing it is
\* empty, whatever it held, and a crash or failure before the write is
\* complete leaves a file from which no earlier record can be read, where
\* one before the open leaves the file as it was.
C18_RewriteIsNotAtomic ==
    /\ [](pc[Main] = "dump" =>
            /\ file = Truncated
            /\ ExistingData(file) = PyEmptyList)
    /\ [][ StopStep =>
            IF pc[Main] = "dump"
            THEN /\ file'.type \in UnparseableTypes
                 /\ ExistingData(file') = PyEmptyList
                 /\ lost' = Len(existing_data[Main].items) - 1
            ELSE file' = file ]_vars

\* a store that held a record is empty while the call is between open and
\* json.dump
C18_WitnessEmptied ==
    /\ pc[Main] = "dump"
    /\ before = "array"
    /\ Len(existing_data[Main].items) = 2
    /\ file = Truncated

\* a stop after the truncation on a store that held a record: the record is
\* gone
C18_Witness ==
    /\ lastOp \in {"crash", "dump_failed"}
    /\ before = "array"
    /\ lost >= 1
    /\ file.type \in UnparseableTypes
    /\ ExistingData(file) = PyEmptyList

====
